---------------------------- MODULE Spec2Model ----------------------------
(***************************************************************************)
(* A model of tfx_bsl/tfxio/tensor_adapter.py: the TensorAdapter, its type *)
(* handlers (dense, default-filling dense, varlen sparse, sparse, ragged), *)
(* the handler registry and the traversal of nested Arrow types along a    *)
(* column path.                                                            *)
(*                                                                         *)
(* Arrow types are records: a leaf is [k |-> "int32"], a list-like type is *)
(* [k |-> "list", value_type |-> t], a struct is [k |-> "struct",          *)
(* fields |-> <<[name |-> n, type |-> t], ...>>].  Arrow arrays are kept   *)
(* in their logical form: a list array holds, per row, whether it is valid *)
(* and how many elements it has, and the child array of all its elements.  *)
(* Leaf values are integer tokens; the Arrow type of an array is carried   *)
(* beside its values.                                                      *)
(***************************************************************************)
EXTENDS Integers, Sequences, FiniteSets, TLC

VARIABLES
  config,                \* the TensorAdapterConfig handed to the constructor
  tf_executing_eagerly,  \* tf.executing_eagerly(): process-wide TF mode
  adapter,               \* the TensorAdapter object (its four slots) or the raised error
  calls,                 \* per call of ToBatchTensors: its frame (pc, arguments, loop index)
  results,               \* the `result` dicts under construction, by slot
  traversal              \* a direct call of the path traversal: its arguments and outcome

vars == <<config, tf_executing_eagerly, adapter, calls, results, traversal>>

(***************************************************************************)
(* Bounds of the model.                                                    *)
(***************************************************************************)
MaxRows == 3      \* rows of a record batch, dense conversions
MaxRowLen == 3    \* elements of one list, dense conversions
MidRows == 2      \* rows of a record batch, conversions of every kind
MidLen == 2       \* elements of one list, conversions of every kind
MinRows == 1      \* rows of a record batch where the batch is not the subject
MinLen == 1       \* elements of one list where the batch is not the subject
MaxNested == 2    \* rows of an inner list array whose rows are enumerated
MaxSteps == 3     \* steps of a column path handed to the traversal

(***************************************************************************)
(* Generic helpers on sequences.                                           *)
(***************************************************************************)
RECURSIVE Prod(_)
Prod(s) == IF s = <<>> THEN 1 ELSE Head(s) * Prod(Tail(s))

RECURSIVE Concat(_)
Concat(ss) == IF ss = <<>> THEN <<>> ELSE Head(ss) \o Concat(Tail(ss))

RECURSIVE Sum(_)
Sum(s) == IF s = <<>> THEN 0 ELSE Head(s) + Sum(Tail(s))

Range(s) == {s[i] : i \in 1..Len(s)}

Max(a, b) == IF a >= b THEN a ELSE b

(***************************************************************************)
(* Arrow types.                                                            *)
(***************************************************************************)
Leaf(k) == [k |-> k]
ListT(t) == [k |-> "list", value_type |-> t]
LargeListT(t) == [k |-> "large_list", value_type |-> t]
StructT(fs) == [k |-> "struct", fields |-> fs]
Field(n, t) == [name |-> n, type |-> t]

is_struct(t) == t.k = "struct"
is_integer(t) == t.k \in {"int8", "uint8", "int32"}
is_floating(t) == t.k \in {"float32"}
is_string(t) == t.k = "string"
is_large_string(t) == t.k = "large_string"

IsListLike(t) == t.k = "list" \/ t.k = "large_list"

IsBinaryLike(t) == t.k \in {"binary", "large_binary", "string", "large_string"}

IsSupportedArrowValueType(t) == is_integer(t) \/ is_floating(t) \/ IsBinaryLike(t)

ArrowTypeToTfDtype(t) == IF IsBinaryLike(t) THEN "string" ELSE t.k

GetConvertToBinaryFn(t) ==
  IF is_string(t) THEN "binary"
  ELSE IF is_large_string(t) THEN "large_binary"
  ELSE "None"

(***************************************************************************)
(* pa.Schema and pa.StructType lookups.  get_field_index is 0-based and    *)
(* -1 for a name the schema does not hold.                                 *)
(***************************************************************************)
get_field_index(schema, name) ==
  IF \E i \in 1..Len(schema) : schema[i].name = name
  THEN (CHOOSE i \in 1..Len(schema) : schema[i].name = name) - 1
  ELSE -1

HasField(fields, name) == \E i \in 1..Len(fields) : fields[i].name = name

FieldType(fields, name) ==
  fields[CHOOSE i \in 1..Len(fields) : fields[i].name = name].type

(***************************************************************************)
(* _EnumerateTypesAlongPath: the types the generator yields, and the       *)
(* exception that ends it, if any ("" for a normal end).  A column missing *)
(* from the schema makes pa.Schema.field raise KeyError; a missing struct  *)
(* child is re-raised as ValueError; so are steps left over at a leaf.     *)
(***************************************************************************)
\* A loop that raises when the path ends at a struct.
RECURSIVE EnumerateLoopStrict(_, _, _)
EnumerateLoopStrict(arrow_type, column_path, yielded) ==
  IF is_struct(arrow_type) THEN
    IF column_path = <<>> \/ ~HasField(arrow_type.fields, Head(column_path))
      THEN [err |-> "ValueError", types |-> yielded]
      ELSE EnumerateLoopStrict(FieldType(arrow_type.fields, Head(column_path)),
                               Tail(column_path),
                               Append(yielded,
                                      FieldType(arrow_type.fields, Head(column_path))))
  ELSE IF IsListLike(arrow_type) THEN
    EnumerateLoopStrict(arrow_type.value_type, column_path,
                        Append(yielded, arrow_type.value_type))
  ELSE
    IF column_path # <<>>
      THEN [err |-> "ValueError", types |-> Append(yielded, arrow_type)]
      ELSE [err |-> "", types |-> Append(yielded, arrow_type)]

RECURSIVE EnumerateLoop(_, _, _)
EnumerateLoop(arrow_type, column_path, yielded) ==
  IF is_struct(arrow_type) THEN
    IF column_path = <<>> THEN [err |-> "", types |-> yielded]
    ELSE IF ~HasField(arrow_type.fields, Head(column_path))
      THEN [err |-> "ValueError", types |-> yielded]
      ELSE LET child == FieldType(arrow_type.fields, Head(column_path))
           IN EnumerateLoop(child, Tail(column_path), Append(yielded, child))
  ELSE IF IsListLike(arrow_type) THEN
    EnumerateLoop(arrow_type.value_type, column_path,
                  Append(yielded, arrow_type.value_type))
  ELSE
    IF column_path # <<>>
      THEN [err |-> "ValueError", types |-> Append(yielded, arrow_type)]
      ELSE [err |-> "", types |-> Append(yielded, arrow_type)]

EnumerateTypesAlongPath(arrow_schema, column_path) ==
  IF column_path = <<>> THEN [err |-> "ValueError", types |-> <<>>]
  ELSE IF ~HasField(arrow_schema, Head(column_path))
    THEN [err |-> "KeyError", types |-> <<>>]
    ELSE LET t == FieldType(arrow_schema, Head(column_path))
         IN EnumerateLoop(t, Tail(column_path), <<t>>)

(***************************************************************************)
(* _GetNestDepthAndValueType: the number of list-like types yielded and    *)
(* the last type yielded.  Line 644 looks the first step up in the schema  *)
(* before the enumeration starts.                                          *)
(***************************************************************************)
CountListLike(types) == Cardinality({i \in 1..Len(types) : IsListLike(types[i])})

\* The loop over the enumeration e (lines 645-651).
DepthAndValueTypeOf(e) ==
  IF e.err # ""
  THEN [err |-> e.err, depth |-> 0, value_type |-> Leaf("null")]
  ELSE [err |-> "", depth |-> CountListLike(e.types),
        value_type |-> e.types[Len(e.types)]]

GetNestDepthAndValueType(arrow_schema, column_path) ==
  IF column_path = <<>>
  THEN [err |-> "IndexError", depth |-> 0, value_type |-> Leaf("null")]
  ELSE IF ~HasField(arrow_schema, Head(column_path))
  THEN [err |-> "KeyError", depth |-> 0, value_type |-> Leaf("null")]
  ELSE DepthAndValueTypeOf(EnumerateTypesAlongPath(arrow_schema, column_path))

ColumnPath(column_name) == <<column_name>>

(***************************************************************************)
(* TensorRepresentation protos.  WhichOneof("kind") is the kind field;     *)
(* "none" stands for a proto with no kind set.                             *)
(***************************************************************************)
NoDefault == [set |-> FALSE, kind |-> "none", value |-> 0]
DefaultValue(kind, v) == [set |-> TRUE, kind |-> kind, value |-> v]

DenseRep(column_name, shape, default_value) ==
  [kind |-> "dense_tensor", column_name |-> column_name, shape |-> shape,
   default_value |-> default_value]
VarLenSparseRep(column_name) ==
  [kind |-> "varlen_sparse_tensor", column_name |-> column_name]
SparseRep(index_column_names, value_column_name, dense_shape) ==
  [kind |-> "sparse_tensor", index_column_names |-> index_column_names,
   value_column_name |-> value_column_name, dense_shape |-> dense_shape]
RaggedRep(feature_path, row_partition_dtype) ==
  [kind |-> "ragged_tensor", feature_path |-> feature_path,
   row_partition_dtype |-> row_partition_dtype]
UnsetRep == [kind |-> "none"]

None == -1   \* the unknown batch dimension of a static shape

(***************************************************************************)
(* Feasibility predicates.  A result is [err |-> "", ok |-> b], or         *)
(* [err |-> e, ok |-> FALSE] when the predicate raises e instead of        *)
(* returning.                                                              *)
(***************************************************************************)
Returns(b) == [err |-> "", ok |-> b]
Raises(e) == [err |-> e, ok |-> FALSE]

\* depth == 1 and _IsSupportedArrowValueType(value_type), for the result d
\* of _GetNestDepthAndValueType.
OneNestedSupported(d) ==
  IF d.err # "" THEN Raises(d.err)
  ELSE Returns(d.depth = 1 /\ IsSupportedArrowValueType(d.value_type))

BaseCanHandle(arrow_schema, rep) ==
  OneNestedSupported(
    GetNestDepthAndValueType(arrow_schema, ColumnPath(rep.column_name)))

\* `b and c` for the result b of a predicate that may have raised.
AndAlso(b, c) == IF b.err # "" THEN b ELSE Returns(b.ok /\ c)

DenseCanHandle(arrow_schema, rep) ==
  AndAlso(BaseCanHandle(arrow_schema, rep), ~rep.default_value.set)

DefaultFillingCanHandle(arrow_schema, rep) ==
  AndAlso(BaseCanHandle(arrow_schema, rep), rep.default_value.set)

VarLenSparseCanHandle(arrow_schema, rep) ==
  OneNestedSupported(
    GetNestDepthAndValueType(arrow_schema, ColumnPath(rep.column_name)))

\* The loop over index_column_names (lines 463-467): the first column that
\* raises or is not a 1-nested list of integers decides; d is the result of
\* _GetNestDepthAndValueType for the column at hand.
RECURSIVE IndexColumnsOk(_, _)
IndexColumnStep(d, arrow_schema, rest) ==
  IF d.err # "" THEN Raises(d.err)
  ELSE IF d.depth # 1 \/ ~is_integer(d.value_type) THEN Returns(FALSE)
  ELSE IndexColumnsOk(arrow_schema, rest)

IndexColumnsOk(arrow_schema, index_column_names) ==
  IF index_column_names = <<>> THEN Returns(TRUE)
  ELSE IndexColumnStep(
         GetNestDepthAndValueType(arrow_schema,
                                  ColumnPath(Head(index_column_names))),
         arrow_schema, Tail(index_column_names))

\* Lines 469-472, reached when the loop over the index columns ended (ic).
SparseValueColumnOk(ic, arrow_schema, rep) ==
  IF ic.err # "" \/ ~ic.ok THEN ic
  ELSE OneNestedSupported(
         GetNestDepthAndValueType(arrow_schema, ColumnPath(rep.value_column_name)))

SparseCanHandle(arrow_schema, rep) ==
  IF Len(rep.dense_shape) # Len(rep.index_column_names) THEN Returns(FALSE)
  ELSE IF \E i \in 1..Len(rep.dense_shape) : rep.dense_shape[i] <= 0
    THEN Returns(FALSE)
  ELSE SparseValueColumnOk(IndexColumnsOk(arrow_schema, rep.index_column_names),
                           arrow_schema, rep)

\* Lines 572-589 for the enumeration e of the feature path.
RaggedVerdict(e) ==
  IF e.err = "ValueError" THEN Returns(FALSE)
  ELSE IF e.err # "" THEN Raises(e.err)
  ELSE IF is_struct(e.types[Len(e.types)]) THEN Returns(FALSE)
  ELSE Returns(CountListLike(e.types) > 0)

RaggedCanHandle(arrow_schema, rep) ==
  RaggedVerdict(EnumerateTypesAlongPath(arrow_schema, rep.feature_path))

(***************************************************************************)
(* Default values of the default-filling dense handler.                    *)
(***************************************************************************)
IInfoMin(t) == CASE t.k = "int8" -> -128
                 [] t.k = "uint8" -> 0
                 [] t.k = "int32" -> -2147483647 - 1
IInfoMax(t) == CASE t.k = "int8" -> 127
                 [] t.k = "uint8" -> 255
                 [] t.k = "int32" -> 2147483647

\* An integer default taken without the range check.
GetAllowedDefaultValueUnchecked(value_type, default_value_proto) ==
  IF default_value_proto.kind \in {"int_value", "uint_value"} /\ is_integer(value_type)
  THEN [err |-> "", value |-> default_value_proto.value]
  ELSE IF default_value_proto.kind = "float_value" /\ is_floating(value_type)
    THEN [err |-> "", value |-> default_value_proto.value]
  ELSE IF default_value_proto.kind = "bytes_value" /\ IsBinaryLike(value_type)
    THEN [err |-> "", value |-> default_value_proto.value]
  ELSE [err |-> "ValueError", value |-> 0]

GetAllowedDefaultValue(value_type, default_value_proto) ==
  IF default_value_proto.kind \in {"int_value", "uint_value"} /\ is_integer(value_type)
  THEN IF /\ default_value_proto.value <= IInfoMax(value_type)
          /\ default_value_proto.value >= IInfoMin(value_type)
       THEN [err |-> "", value |-> default_value_proto.value]
       ELSE [err |-> "ValueError", value |-> 0]
  ELSE IF default_value_proto.kind = "float_value" /\ is_floating(value_type)
    THEN [err |-> "", value |-> default_value_proto.value]
  ELSE IF default_value_proto.kind = "bytes_value" /\ IsBinaryLike(value_type)
    THEN [err |-> "", value |-> default_value_proto.value]
  ELSE [err |-> "ValueError", value |-> 0]

\* pa.array([v] * size, type=value_type) for the allowed default v.
DefaultFillOf(v, size, value_type) ==
  IF v.err # "" THEN [err |-> v.err]
  ELSE [err |-> "",
        fill |-> [type |-> value_type, offset |-> 0,
                  vals |-> [i \in 1..size |-> v.value]]]

\* A fill of one default value, whatever the shape.
GetDefaultFillOfOne(unbatched_shape, value_type, default_value_proto) ==
  DefaultFillOf(GetAllowedDefaultValue(value_type, default_value_proto),
                1, value_type)

GetDefaultFill(unbatched_shape, value_type, default_value_proto) ==
  DefaultFillOf(GetAllowedDefaultValue(value_type, default_value_proto),
                Prod(unbatched_shape), value_type)

(***************************************************************************)
(* Handler constructors.  A handler is a record of its class and slots.    *)
(* A constructor result is [err |-> "", handler |-> h] or, when __init__   *)
(* raises, [err |-> e].                                                    *)
(***************************************************************************)
BaseDenseSlots(cls, column_index, value_type, unbatched_shape) ==
  [cls |-> cls,
   _column_index |-> column_index,
   _dtype |-> ArrowTypeToTfDtype(value_type),
   _convert_to_binary_fn |-> GetConvertToBinaryFn(value_type),
   _shape |-> <<None>> \o unbatched_shape,
   _unbatched_flat_len |-> Prod(unbatched_shape)]

BaseDenseInit(cls, arrow_schema, rep) ==
  BaseDenseSlots(cls, get_field_index(arrow_schema, rep.column_name),
                 GetNestDepthAndValueType(
                   arrow_schema, ColumnPath(rep.column_name)).value_type,
                 rep.shape)

DenseInit(arrow_schema, rep) ==
  [err |-> "", handler |-> BaseDenseInit("_DenseTensorHandler", arrow_schema, rep)]

\* Lines 316-318: the slot _default_fill added to the base slots, or the
\* exception of _GetDefaultFill.
WithDefaultFill(base, f) ==
  IF f.err # "" THEN [err |-> f.err]
  ELSE [err |-> "",
        handler |-> [cls |-> base.cls,
                     _column_index |-> base._column_index,
                     _dtype |-> base._dtype,
                     _convert_to_binary_fn |-> base._convert_to_binary_fn,
                     _shape |-> base._shape,
                     _unbatched_flat_len |-> base._unbatched_flat_len,
                     _default_fill |-> f.fill]]

DefaultFillingInit(arrow_schema, rep) ==
  WithDefaultFill(
    BaseDenseInit("_DefaultFillingDenseTensorHandler", arrow_schema, rep),
    GetDefaultFill(rep.shape,
                   GetNestDepthAndValueType(
                     arrow_schema, ColumnPath(rep.column_name)).value_type,
                   rep.default_value))

VarLenSparseSlots(column_index, value_type) ==
  [cls |-> "_VarLenSparseTensorHandler",
   _column_index |-> column_index,
   _dtype |-> ArrowTypeToTfDtype(value_type),
   _convert_to_binary_fn |-> GetConvertToBinaryFn(value_type)]

VarLenSparseInit(arrow_schema, rep) ==
  [err |-> "",
   handler |-> VarLenSparseSlots(
                 get_field_index(arrow_schema, rep.column_name),
                 GetNestDepthAndValueType(
                   arrow_schema, ColumnPath(rep.column_name)).value_type)]

SparseSlots(index_column_indices, value_column_index, shape, value_type) ==
  [cls |-> "_SparseTensorHandler",
   _index_column_indices |-> index_column_indices,
   _value_column_index |-> value_column_index,
   _shape |-> shape,
   _dtype |-> ArrowTypeToTfDtype(value_type),
   _coo_size |-> Len(shape) + 1,
   _convert_to_binary_fn |-> GetConvertToBinaryFn(value_type)]

SparseInit(arrow_schema, rep) ==
  [err |-> "",
   handler |-> SparseSlots(
                 [i \in 1..Len(rep.index_column_names) |->
                    get_field_index(arrow_schema, rep.index_column_names[i])],
                 get_field_index(arrow_schema, rep.value_column_name),
                 rep.dense_shape,
                 GetNestDepthAndValueType(
                   arrow_schema, ColumnPath(rep.value_column_name)).value_type)]

RaggedSlots(d, arrow_schema, rep) ==
  IF d.err # "" THEN [err |-> d.err]
  ELSE [err |-> "",
        handler |-> [cls |-> "_RaggedTensorHandler",
                     _path |-> rep.feature_path,
                     _column_index |->
                       get_field_index(arrow_schema, Head(rep.feature_path)),
                     _ragged_rank |-> d.depth,
                     _dtype |-> ArrowTypeToTfDtype(d.value_type),
                     _row_partition_dtype |-> rep.row_partition_dtype,
                     _convert_to_binary_fn |-> GetConvertToBinaryFn(d.value_type)]]

RaggedInit(arrow_schema, rep) ==
  RaggedSlots(GetNestDepthAndValueType(arrow_schema, rep.feature_path),
              arrow_schema, rep)

(***************************************************************************)
(* The type_spec property of each handler class.                           *)
(***************************************************************************)
type_spec(h) ==
  CASE h.cls \in {"_DenseTensorHandler", "_DefaultFillingDenseTensorHandler"} ->
         [spec |-> "TensorSpec", shape |-> h._shape, dtype |-> h._dtype]
    [] h.cls = "_VarLenSparseTensorHandler" ->
         [spec |-> "SparseTensorSpec", shape |-> <<None, None>>, dtype |-> h._dtype]
    [] h.cls = "_SparseTensorHandler" ->
         [spec |-> "SparseTensorSpec", shape |-> <<None>> \o h._shape,
          dtype |-> h._dtype]
    [] h.cls = "_RaggedTensorHandler" ->
         [spec |-> "RaggedTensorSpec",
          shape |-> [i \in 1..(h._ragged_rank + 1) |-> None],
          dtype |-> h._dtype,
          ragged_rank |-> h._ragged_rank,
          row_splits_dtype |->
            IF h._row_partition_dtype = "INT32" THEN "int32" ELSE "int64"]

(***************************************************************************)
(* _TYPE_HANDLER_MAP and _BuildTypeHandlers.  The candidates of a kind are *)
(* handler class names in their declared order; an unknown kind has none.  *)
(***************************************************************************)
TYPE_HANDLER_MAP(kind) ==
  CASE kind = "dense_tensor" ->
         <<"_DenseTensorHandler", "_DefaultFillingDenseTensorHandler">>
    [] kind = "varlen_sparse_tensor" -> <<"_VarLenSparseTensorHandler">>
    [] kind = "sparse_tensor" -> <<"_SparseTensorHandler">>
    [] kind = "ragged_tensor" -> <<"_RaggedTensorHandler">>
    [] OTHER -> <<>>

CanHandle(cls, arrow_schema, rep) ==
  CASE cls = "_DenseTensorHandler" -> DenseCanHandle(arrow_schema, rep)
    [] cls = "_DefaultFillingDenseTensorHandler" ->
         DefaultFillingCanHandle(arrow_schema, rep)
    [] cls = "_VarLenSparseTensorHandler" -> VarLenSparseCanHandle(arrow_schema, rep)
    [] cls = "_SparseTensorHandler" -> SparseCanHandle(arrow_schema, rep)
    [] cls = "_RaggedTensorHandler" -> RaggedCanHandle(arrow_schema, rep)

NewHandler(cls, arrow_schema, rep) ==
  CASE cls = "_DenseTensorHandler" -> DenseInit(arrow_schema, rep)
    [] cls = "_DefaultFillingDenseTensorHandler" ->
         DefaultFillingInit(arrow_schema, rep)
    [] cls = "_VarLenSparseTensorHandler" -> VarLenSparseInit(arrow_schema, rep)
    [] cls = "_SparseTensorHandler" -> SparseInit(arrow_schema, rep)
    [] cls = "_RaggedTensorHandler" -> RaggedInit(arrow_schema, rep)

\* result.append((tensor_name, h(arrow_schema, rep))) for the constructor
\* result n (line 617).
Instantiated(n) ==
  IF n.err # "" THEN [err |-> n.err, found |-> FALSE, raised_by |-> "__init__"]
  ELSE [err |-> "", found |-> TRUE, handler |-> n.handler]

\* The inner loop of _BuildTypeHandlers over the candidates of one kind
\* (lines 614-618): [found |-> FALSE] when none accepts, the handler of the
\* first that accepts, or the exception CanHandle or __init__ raised.
\* c is what CanHandle did for the candidate at hand.
RECURSIVE FirstHandler(_, _, _)
CandidateStep(c, potential_handlers, arrow_schema, rep) ==
  IF c.err # "" THEN [err |-> c.err, found |-> FALSE, raised_by |-> "CanHandle"]
  ELSE IF c.ok
  THEN Instantiated(NewHandler(Head(potential_handlers), arrow_schema, rep))
  ELSE FirstHandler(Tail(potential_handlers), arrow_schema, rep)

FirstHandler(potential_handlers, arrow_schema, rep) ==
  IF potential_handlers = <<>> THEN [err |-> "", found |-> FALSE]
  ELSE CandidateStep(CanHandle(Head(potential_handlers), arrow_schema, rep),
                     potential_handlers, arrow_schema, rep)

NoError == [exc |-> ""]

\* tensor_representations is the dict as the sequence of its items, in
\* iteration order.  The result is [err |-> NoError, handlers |-> <<...>>]
\* or [err |-> e] for the exception that leaves the function.  f is how the
\* inner loop ended for the item at hand (lines 613-622).
RECURSIVE BuildLoop(_, _, _)
ItemStep(f, items, arrow_schema, result) ==
  IF f.err # "" THEN [err |-> [exc |-> f.err, msg |-> f.raised_by]]
  ELSE IF ~f.found
  THEN [err |-> [exc |-> "ValueError",
                 msg |-> "Unable to handle tensor against schema",
                 tensor |-> Head(items).name, rep |-> Head(items).rep,
                 schema |-> arrow_schema]]
  ELSE BuildLoop(Tail(items), arrow_schema,
                 Append(result, [name |-> Head(items).name, handler |-> f.handler]))

BuildLoop(items, arrow_schema, result) ==
  IF items = <<>> THEN [err |-> NoError, handlers |-> result]
  ELSE IF TYPE_HANDLER_MAP(Head(items).rep.kind) = <<>>
  THEN [err |-> [exc |-> "ValueError", msg |-> "Unable to handle tensor",
                 tensor |-> Head(items).name, rep |-> Head(items).rep]]
  ELSE ItemStep(FirstHandler(TYPE_HANDLER_MAP(Head(items).rep.kind),
                             arrow_schema, Head(items).rep),
                items, arrow_schema, result)

BuildTypeHandlers(tensor_representations, arrow_schema) ==
  BuildLoop(tensor_representations, arrow_schema, <<>>)

(***************************************************************************)
(* TensorAdapter.__init__.  A dict is a function from its keys; the        *)
(* optional original_type_specs is [none |-> TRUE] or                      *)
(* [none |-> FALSE, specs |-> dict].                                       *)
(***************************************************************************)
NoOriginal == [none |-> TRUE]
Original(d) == [none |-> FALSE, specs |-> d]

TypeSpecsOf(type_handlers) ==
  [n \in {type_handlers[i].name : i \in 1..Len(type_handlers)} |->
     type_spec(type_handlers[CHOOSE i \in 1..Len(type_handlers) :
                               type_handlers[i].name = n].handler)]

\* Lines 95-97.
OriginalTypeSpecsOf(type_specs, original_type_specs) ==
  IF original_type_specs.none THEN type_specs ELSE original_type_specs.specs

\* A check that only asks for the names to be present.
SpecsMissing(type_handlers, type_specs, original_type_specs) ==
  SelectSeq([i \in 1..Len(type_handlers) |-> type_handlers[i].name],
            LAMBDA n : n \notin DOMAIN original_type_specs)

\* The names of type_handlers whose original type spec is missing or unequal,
\* in the order the dict _type_specs iterates them (lines 99-101).
SpecMismatches(type_handlers, type_specs, original_type_specs) ==
  SelectSeq([i \in 1..Len(type_handlers) |-> type_handlers[i].name],
            LAMBDA n : \/ n \notin DOMAIN original_type_specs
                       \/ original_type_specs[n] # type_specs[n])

\* Lines 99-105 and the object that results.
CheckedAdapter(arrow_schema, type_handlers, type_specs, original, bad) ==
  IF bad # <<>>
  THEN [state |-> "raised",
        error |-> [exc |-> "ValueError",
                   msg |-> "original_type_specs must be a superset",
                   tensor |-> Head(bad)]]
  ELSE [state |-> "constructed",
        _arrow_schema |-> arrow_schema,
        _type_handlers |-> type_handlers,
        _type_specs |-> type_specs,
        _original_type_specs |-> original]

AdapterWithSpecs(cfg, type_handlers, type_specs, original) ==
  CheckedAdapter(cfg.arrow_schema, type_handlers, type_specs, original,
                 SpecMismatches(type_handlers, type_specs, original))

AdapterWithHandlers(cfg, type_handlers, type_specs) ==
  AdapterWithSpecs(cfg, type_handlers, type_specs,
                   OriginalTypeSpecsOf(type_specs, cfg.original_type_specs))

AdapterFrom(cfg, b) ==
  IF b.err # NoError THEN [state |-> "raised", error |-> b.err]
  ELSE AdapterWithHandlers(cfg, b.handlers, TypeSpecsOf(b.handlers))

TensorAdapterInit(cfg) ==
  AdapterFrom(cfg, BuildTypeHandlers(cfg.tensor_representations, cfg.arrow_schema))

\* TensorAdapter.TypeSpecs and TensorAdapter.OriginalTypeSpecs.
TypeSpecs(a) == a._type_specs
OriginalTypeSpecs(a) == a._original_type_specs

(***************************************************************************)
(* Arrow arrays and record batches.                                        *)
(*   leaf array:   [type, offset, vals]                                    *)
(*   list array:   [type, offset, valid, lens, values]  (one entry of      *)
(*                 valid and lens per row; a null row has length 0;        *)
(*                 values is the child array of all elements)              *)
(*   struct array: [type, offset, len, children]  (one child per field)    *)
(* offset is pa.Array.offset: non-zero for a sliced array.                 *)
(***************************************************************************)
ArrayLen(a) ==
  IF is_struct(a.type) THEN a.len
  ELSE IF IsListLike(a.type) THEN Len(a.lens)
  ELSE Len(a.vals)

\* pa.ListArray.flatten(): the elements of the non-null lists, in row order.
Flatten(list_array) == list_array.values

\* pa.ListArray.offsets: where each row starts in the flattened values, and the end.
RECURSIVE OffsetsFrom(_, _)
OffsetsFrom(lens, start) ==
  IF lens = <<>> THEN <<start>>
  ELSE <<start>> \o OffsetsFrom(Tail(lens), start + Head(lens))

Offsets(list_array) == OffsetsFrom(list_array.lens, 0)

\* pa.Array.view(binary type): the same buffers under another type.
View(a, k) == [a EXCEPT !.type = Leaf(k)]

ConvertToBinary(fn, a) == IF fn = "None" THEN a ELSE View(a, fn)

\* The dtype of np.asarray of a leaf array.
NpDtype(t) == IF IsBinaryLike(t) THEN "object" ELSE t.k

\* tf.convert_to_tensor's dtype for an ndarray dtype.
TfDtypeOfNp(d) == IF d = "object" THEN "string" ELSE d

\* An ndarray of the given shape over a flat row-major buffer.
NdArray(shape, dtype, data) ==
  [cls |-> "ndarray", shape |-> shape, dtype |-> dtype, data |-> data]

\* np.asarray of a leaf array.
AsArray(a) == NdArray(<<Len(a.vals)>>, NpDtype(a.type), a.vals)

\* A reshape that leaves the buffer one-dimensional.
NotReshaped(nd, shape) == nd

\* ndarray.reshape
Reshape(nd, shape) == [nd EXCEPT !.shape = shape]

\* A conversion that loses the shape of the array.
ConvertToFlatTensor(nd) ==
  [cls |-> "Tensor", shape |-> <<Len(nd.data)>>, dtype |-> TfDtypeOfNp(nd.dtype),
   data |-> nd.data]

\* tf.convert_to_tensor of an ndarray.
ConvertToTensor(nd) ==
  [cls |-> "Tensor", shape |-> nd.shape, dtype |-> TfDtypeOfNp(nd.dtype),
   data |-> nd.data]

(***************************************************************************)
(* tfx_bsl.arrow.array_util (not part of this source file).                *)
(***************************************************************************)
\* FillNullLists: a copy of list_array with every null list replaced by fill.
RECURSIVE FillRows(_, _, _, _)
FillRows(valid, lens, vals, fill) ==
  IF valid = <<>> THEN <<>>
  ELSE (IF Head(valid) THEN SubSeq(vals, 1, Head(lens)) ELSE fill)
       \o FillRows(Tail(valid), Tail(lens),
                   SubSeq(vals, Head(lens) + 1, Len(vals)), fill)

FillNullLists(list_array, fill) ==
  [list_array EXCEPT
     !.valid = [i \in 1..Len(list_array.valid) |-> TRUE],
     !.lens = [i \in 1..Len(list_array.lens) |->
                 IF list_array.valid[i] THEN list_array.lens[i] ELSE Len(fill.vals)],
     !.values = [list_array.values EXCEPT
                   !.vals = FillRows(list_array.valid, list_array.lens,
                                     list_array.values.vals, fill.vals)]]

\* GetFlattenedArrayParentIndices: for each flattened element, the 0-based
\* index of the row it belongs to.
RECURSIVE ParentIndicesFrom(_, _)
ParentIndicesFrom(lens, row) ==
  IF lens = <<>> THEN <<>>
  ELSE [i \in 1..Head(lens) |-> row] \o ParentIndicesFrom(Tail(lens), row + 1)

GetFlattenedArrayParentIndices(list_array) == ParentIndicesFrom(list_array.lens, 0)

\* CooFromListArray: the (row, position in row) pair of each flattened
\* element, row after row, and the dense shape [rows, longest row].
RECURSIVE CooFrom(_, _)
CooFrom(lens, row) ==
  IF lens = <<>> THEN <<>>
  ELSE Concat([i \in 1..Head(lens) |-> <<row, i - 1>>]) \o CooFrom(Tail(lens), row + 1)

RECURSIVE MaxOf(_)
MaxOf(s) == IF s = <<>> THEN 0 ELSE Max(Head(s), MaxOf(Tail(s)))

CooFromListArray(list_array) ==
  [coo |-> CooFrom(list_array.lens, 0),
   dense_shape |-> <<Len(list_array.lens), MaxOf(list_array.lens)>>]

(***************************************************************************)
(* GetTensor of each handler class.  A result is [err |-> NoError,         *)
(* value |-> v] or [err |-> e].  A value records the Python class of the   *)
(* object returned: an ndarray / SparseTensorValue / RaggedTensorValue, or *)
(* the eager tf.Tensor / tf.SparseTensor / tf.RaggedTensor.                *)
(***************************************************************************)
Column(record_batch, column_index) == record_batch.columns[column_index + 1]

Got(v) == [err |-> NoError, value |-> v]

\* Lines 270-273.
EagerOrNot(produce_eager_tensors, values_np) ==
  IF produce_eager_tensors THEN ConvertToTensor(values_np) ELSE values_np

\* _ListArrayToTensor for the flattened values of list_array.
FlatToTensor(h, values, batch_size, produce_eager_tensors) ==
  IF Len(values.vals) # batch_size * h._unbatched_flat_len
  THEN [err |-> [exc |-> "ValueError", msg |-> "size mismatch",
                 expected |-> batch_size * h._unbatched_flat_len,
                 got |-> Len(values.vals)]]
  ELSE Got(EagerOrNot(
             produce_eager_tensors,
             Reshape(AsArray(ConvertToBinary(h._convert_to_binary_fn, values)),
                     [h._shape EXCEPT ![1] = batch_size])))

\* A conversion that reshapes whatever it is given, without the size check.
ListArrayToTensorUnchecked(h, list_array, produce_eager_tensors) ==
  Got(EagerOrNot(
        produce_eager_tensors,
        Reshape(AsArray(ConvertToBinary(h._convert_to_binary_fn, Flatten(list_array))),
                [h._shape EXCEPT ![1] = ArrayLen(list_array)])))

ListArrayToTensor(h, list_array, produce_eager_tensors) ==
  FlatToTensor(h, Flatten(list_array), ArrayLen(list_array), produce_eager_tensors)

DenseGetTensor(h, record_batch, produce_eager_tensors) ==
  ListArrayToTensor(h, Column(record_batch, h._column_index), produce_eager_tensors)

DefaultFillingGetTensor(h, record_batch, produce_eager_tensors) ==
  ListArrayToTensor(
    h, FillNullLists(Column(record_batch, h._column_index), h._default_fill),
    produce_eager_tensors)

\* Lines 367-373; dense_shape_np is an ndarray.
VarLenSparseValue(produce_eager_tensors, coo_np, dense_shape_np, values_np) ==
  IF produce_eager_tensors
  THEN [cls |-> "SparseTensor",
        indices |-> ConvertToTensor(coo_np),
        dense_shape |-> ConvertToTensor(dense_shape_np),
        values |-> ConvertToTensor(values_np)]
  ELSE [cls |-> "SparseTensorValue", indices |-> coo_np,
        dense_shape |-> dense_shape_np, values |-> values_np]

\* Lines 360-366 for the result c of CooFromListArray.
VarLenSparseOf(c, values_np, produce_eager_tensors) ==
  VarLenSparseValue(produce_eager_tensors,
                    Reshape(NdArray(<<Len(c.coo)>>, "int64", c.coo),
                            <<values_np.shape[1], 2>>),
                    NdArray(<<2>>, "int64", c.dense_shape),
                    values_np)

VarLenSparseGetTensor(h, record_batch, produce_eager_tensors) ==
  Got(VarLenSparseOf(
        CooFromListArray(Column(record_batch, h._column_index)),
        AsArray(ConvertToBinary(h._convert_to_binary_fn,
                                Flatten(Column(record_batch, h._column_index)))),
        produce_eager_tensors))

\* The arrays laid one after the other, as np.stack(arrays, axis=0) would.
StackAxis0(arrays, n) == Concat(arrays)

\* np.stack(arrays, axis=1) of n-element arrays, as the row-major buffer of
\* the result: row r holds element r of every array.
StackAxis1(arrays, n) ==
  Concat([r \in 1..n |-> [k \in 1..Len(arrays) |-> arrays[k][r]]])

SizesOf(arrays) == [k \in 1..Len(arrays) |-> Len(arrays[k])]

\* A Python list of integers.
PyList(data) == [cls |-> "list", data |-> data]

\* Lines 442-448; dense_shape is a Python list.
SparseValue(produce_eager_tensors, coo_np, dense_shape, values_np) ==
  IF produce_eager_tensors
  THEN [cls |-> "SparseTensor",
        indices |-> ConvertToTensor(coo_np),
        dense_shape |-> ConvertToTensor(NdArray(<<Len(dense_shape)>>, "int64",
                                                 dense_shape)),
        values |-> ConvertToTensor(values_np)]
  ELSE [cls |-> "SparseTensorValue", indices |-> coo_np,
        dense_shape |-> PyList(dense_shape), values |-> values_np]

\* Lines 430-448: np.stack into coo_np, which has len(values_np) rows and
\* _coo_size columns, fails unless every index array has that many elements.
SparseOf(h, indices_arrays, values_np, num_rows, produce_eager_tensors) ==
  IF \/ \E k \in 1..Len(indices_arrays) :
          Len(indices_arrays[k]) # Len(values_np.data)
     \/ Len(indices_arrays) # h._coo_size
  THEN [err |-> [exc |-> "ValueError", msg |-> "Error constructing the COO",
                 number_of_values |-> Len(values_np.data),
                 sizes |-> SizesOf(indices_arrays)]]
  ELSE Got(SparseValue(produce_eager_tensors,
                       NdArray(<<Len(values_np.data), h._coo_size>>, "int64",
                               StackAxis1(indices_arrays, Len(values_np.data))),
                       <<num_rows>> \o h._shape,
                       values_np))

SparseGetTensor(h, record_batch, produce_eager_tensors) ==
  SparseOf(h,
           <<GetFlattenedArrayParentIndices(
               Column(record_batch, h._value_column_index))>> \o
           [k \in 1..Len(h._index_column_indices) |->
              Flatten(Column(record_batch, h._index_column_indices[k])).vals],
           AsArray(ConvertToBinary(
                     h._convert_to_binary_fn,
                     Flatten(Column(record_batch, h._value_column_index)))),
           record_batch.num_rows,
           produce_eager_tensors)

\* pa.StructArray.field(name)
StructField(struct_array, name) ==
  struct_array.children[CHOOSE i \in 1..Len(struct_array.type.fields) :
                          struct_array.type.fields[i].name = name]

OffsetsDtype(row_partition_dtype) ==
  IF row_partition_dtype = "INT32" THEN "int32" ELSE "int64"

\* The while loop of _RaggedTensorHandler.GetTensor: the row splits recorded
\* so far, outermost first, and the array reached.
RECURSIVE RaggedWalk(_, _, _, _)
RaggedWalk(column, column_path, offsets_dtype, row_splits) ==
  IF column.offset # 0
  THEN [err |-> [exc |-> "ValueError", msg |-> "This record batch is sliced"]]
  ELSE IF is_struct(column.type) THEN
    IF column_path = <<>>
    THEN [err |-> [exc |-> "ValueError", msg |-> "This path is empty"]]
    ELSE RaggedWalk(StructField(column, Head(column_path)), Tail(column_path),
                    offsets_dtype, row_splits)
  ELSE IF IsListLike(column.type) THEN
    RaggedWalk(Flatten(column), column_path, offsets_dtype,
               Append(row_splits,
                      NdArray(<<Len(column.lens) + 1>>, offsets_dtype,
                              Offsets(column))))
  ELSE [err |-> NoError, values |-> column, row_splits |-> row_splits]

\* factory(values=result, row_splits=row_split); from_row_splits converts
\* ndarray arguments to tensors.
Factory(factory, result, row_split) ==
  IF factory = "RaggedTensor"
  THEN [cls |-> "RaggedTensor",
        values |-> IF result.cls = "ndarray" THEN ConvertToTensor(result)
                   ELSE result,
        row_splits |-> ConvertToTensor(row_split)]
  ELSE [cls |-> "RaggedTensorValue", values |-> result, row_splits |-> row_split]

\* A loop over row_splits in recorded order: the first split wraps the flat
\* values, the last ends up outermost.
RECURSIVE WrapRowSplitsForward(_, _, _)
WrapRowSplitsForward(factory, result, row_splits) ==
  IF row_splits = <<>> THEN result
  ELSE WrapRowSplitsForward(factory,
                            Factory(factory, result, Head(row_splits)),
                            Tail(row_splits))

\* The loop over reversed(row_splits): the last split wraps the flat
\* values, the first ends up outermost.
RECURSIVE WrapRowSplits(_, _, _)
WrapRowSplits(factory, result, row_splits) ==
  IF row_splits = <<>> THEN result
  ELSE WrapRowSplits(factory,
                     Factory(factory, result, row_splits[Len(row_splits)]),
                     SubSeq(row_splits, 1, Len(row_splits) - 1))

\* Lines 541-555 for the outcome w of the while loop.
RaggedOf(h, w, produce_eager_tensors) ==
  IF w.err # NoError THEN [err |-> w.err]
  ELSE Got(WrapRowSplits(
             IF produce_eager_tensors THEN "RaggedTensor" ELSE "RaggedTensorValue",
             AsArray(ConvertToBinary(h._convert_to_binary_fn, w.values)),
             w.row_splits))

RaggedGetTensor(h, record_batch, produce_eager_tensors) ==
  RaggedOf(h,
           RaggedWalk(Column(record_batch, h._column_index), Tail(h._path),
                      OffsetsDtype(h._row_partition_dtype), <<>>),
           produce_eager_tensors)

GetTensor(h, record_batch, produce_eager_tensors) ==
  CASE h.cls = "_DenseTensorHandler" ->
         DenseGetTensor(h, record_batch, produce_eager_tensors)
    [] h.cls = "_DefaultFillingDenseTensorHandler" ->
         DefaultFillingGetTensor(h, record_batch, produce_eager_tensors)
    [] h.cls = "_VarLenSparseTensorHandler" ->
         VarLenSparseGetTensor(h, record_batch, produce_eager_tensors)
    [] h.cls = "_SparseTensorHandler" ->
         SparseGetTensor(h, record_batch, produce_eager_tensors)
    [] h.cls = "_RaggedTensorHandler" ->
         RaggedGetTensor(h, record_batch, produce_eager_tensors)

(***************************************************************************)
(* Inputs: schemas, tensor representations, configurations.                *)
(***************************************************************************)
SchemaD ==
  <<Field("f", ListT(Leaf("int8"))),
    Field("s", LargeListT(Leaf("string"))),
    Field("x", Leaf("int32")),
    Field("b", ListT(Leaf("bool"))),
    Field("ll", ListT(ListT(Leaf("int32"))))>>

SchemaS ==
  <<Field("i", ListT(Leaf("int32"))),
    Field("v", LargeListT(Leaf("float32"))),
    Field("x", Leaf("int32"))>>

SchemaR ==
  <<Field("x", Leaf("int32")),
    Field("r", ListT(LargeListT(Leaf("float32")))),
    Field("t", StructT(<<Field("n", Leaf("int32")),
                         Field("a", ListT(Leaf("string")))>>))>>

\* Structs in structs and in lists, for the path traversal.
SchemaP ==
  <<Field("x", Leaf("int32")),
    Field("r", ListT(LargeListT(Leaf("float32")))),
    Field("t", StructT(<<Field("n", Leaf("int32")),
                         Field("a", ListT(Leaf("string"))),
                         Field("u", StructT(<<Field("m", ListT(Leaf("int32")))>>))>>)),
    Field("lt", LargeListT(StructT(<<Field("k", Leaf("int32")),
                                     Field("a", ListT(ListT(Leaf("binary"))))>>)))>>

StepNames == {"x", "r", "t", "n", "a", "u", "m", "lt", "k", "zz"}

\* The column paths of 1..n steps.
PathsUpTo(n) == UNION {[1..l -> StepNames] : l \in 1..n}

\* One list column per kind of leaf, for the default values.
SchemaF ==
  <<Field("f", ListT(Leaf("int8"))),
    Field("u", ListT(Leaf("uint8"))),
    Field("g", LargeListT(Leaf("float32"))),
    Field("s", LargeListT(Leaf("string"))),
    Field("y", ListT(Leaf("binary")))>>

\* Default values at and around the limits of the 8-bit integer types, and
\* of every other kind.
DefaultsAround ==
  {DefaultValue("int_value", v) : v \in {-129, -128, -1, 0, 127, 128, 255, 256}}
  \cup {DefaultValue("uint_value", v) : v \in {0, 127, 128, 255, 256}}
  \cup {DefaultValue("float_value", 0), DefaultValue("bytes_value", 0),
        DefaultValue("none", 0)}

DefaultReps ==
  {DenseRep(c, <<2>>, d) : c \in {"f", "u", "g", "s", "y"}, d \in DefaultsAround}

DenseShapes == {<<2>>, <<2, 1>>}

Defaults ==
  {NoDefault, DefaultValue("int_value", 0), DefaultValue("int_value", 200),
   DefaultValue("float_value", 0), DefaultValue("bytes_value", 0),
   DefaultValue("none", 0)}

DenseReps ==
  {DenseRep(c, sh, d) : c \in {"f", "s", "x", "b", "ll", "zz"},
                        sh \in DenseShapes, d \in Defaults}

VarLenReps == {VarLenSparseRep(c) : c \in {"f", "s", "x", "ll", "zz"}}

SparseReps ==
  {SparseRep(ic, vc, sh) :
     ic \in {<<>>, <<"i">>, <<"i", "i">>, <<"v">>, <<"x">>, <<"zz">>},
     vc \in {"v", "i", "x", "zz"},
     sh \in {<<>>, <<10>>, <<10, 5>>, <<0>>, <<10, -1>>}}

RaggedReps ==
  {RaggedRep(fp, d) :
     fp \in {<<"r">>, <<"t", "a">>, <<"t">>, <<"t", "n">>, <<"t", "zz">>,
             <<"x">>, <<"x", "y">>, <<"r", "y">>, <<"zz">>},
     d \in {"UNSPECIFIED", "INT64", "INT32"}}

Item(n, rep) == [name |-> n, rep |-> rep]

\* TensorAdapterConfig.__init__
Config(arrow_schema, tensor_representations, original_type_specs) ==
  [arrow_schema |-> arrow_schema,
   tensor_representations |-> tensor_representations,
   original_type_specs |-> original_type_specs]

SingleConfigs(schema, reps) ==
  {Config(schema, <<Item("p", rep)>>, NoOriginal) : rep \in reps}

\* Two tensors, iterated "q" then "p".
PairReps ==
  {DenseRep("f", <<2>>, NoDefault), DenseRep("f", <<2>>, DefaultValue("int_value", 0)),
   VarLenSparseRep("f")}

PairConfigs ==
  {Config(SchemaD, <<Item("q", r1), Item("p", r2)>>, NoOriginal) :
     r1 \in PairReps, r2 \in PairReps}

DenseConfigs == SingleConfigs(SchemaD, DenseReps)

AllConfigs ==
  DenseConfigs \cup SingleConfigs(SchemaD, VarLenReps \cup {UnsetRep})
  \cup SingleConfigs(SchemaS, SparseReps)
  \cup SingleConfigs(SchemaR, RaggedReps)
  \cup PairConfigs

(***************************************************************************)
(* Record batches.  Leaf values are distinct tokens, base + position, so   *)
(* that the place of every value in an output can be traced.               *)
(***************************************************************************)
ColumnsRead(rep) ==
  CASE rep.kind \in {"dense_tensor", "varlen_sparse_tensor"} -> {rep.column_name}
    [] rep.kind = "sparse_tensor" ->
         Range(rep.index_column_names) \cup {rep.value_column_name}
    [] rep.kind = "ragged_tensor" ->
         IF rep.feature_path = <<>> THEN {} ELSE {Head(rep.feature_path)}
    [] OTHER -> {}

ColumnsReadBy(cfg) ==
  UNION {ColumnsRead(cfg.tensor_representations[i].rep) :
           i \in 1..Len(cfg.tensor_representations)}

\* One row of a list array: null, or a list of 0..maxlen elements.
RowOptions(maxlen) ==
  {[valid |-> FALSE, len |-> 0]} \cup {[valid |-> TRUE, len |-> l] : l \in 0..maxlen}

LeafArray(t, n, base) ==
  [type |-> t, offset |-> 0, vals |-> [i \in 1..n |-> base + i]]

RowLens(rows) == [i \in 1..Len(rows) |-> rows[i].len]

\* The array of type t with n rows in which every list has one element.
RECURSIVE CanonArray(_, _, _)
CanonArray(t, n, base) ==
  IF is_struct(t)
  THEN [type |-> t, offset |-> 0, len |-> n,
        children |-> [k \in 1..Len(t.fields) |->
                        CanonArray(t.fields[k].type, n, base + 10 * (k - 1))]]
  ELSE IF IsListLike(t)
  THEN [type |-> t, offset |-> 0, valid |-> [i \in 1..n |-> TRUE],
        lens |-> [i \in 1..n |-> 1], values |-> CanonArray(t.value_type, n, base)]
  ELSE LeafArray(t, n, base)

\* Every array of type t with n rows whose lists have at most maxlen
\* elements.  The rows of an inner list array are enumerated, up to MinLen
\* elements each, while it has at most MaxNested rows; a longer one has
\* one element in every row.
RECURSIVE ArraysOf(_, _, _, _)
RECURSIVE ChildrenOf(_, _, _, _)
ValuesOf(t, n, base) ==
  IF n <= MaxNested THEN ArraysOf(t, n, MinLen, base) ELSE {CanonArray(t, n, base)}

ArraysOf(t, n, maxlen, base) ==
  IF is_struct(t)
  THEN {[type |-> t, offset |-> 0, len |-> n, children |-> ch] :
          ch \in ChildrenOf(t.fields, n, maxlen, base)}
  ELSE IF IsListLike(t)
  THEN UNION {{[type |-> t, offset |-> 0,
                valid |-> [i \in 1..n |-> rows[i].valid],
                lens |-> RowLens(rows),
                values |-> v] :
                 v \in ValuesOf(t.value_type, Sum(RowLens(rows)), base)} :
              rows \in [1..n -> RowOptions(maxlen)]}
  ELSE {LeafArray(t, n, base)}

ChildrenOf(fields, n, maxlen, base) ==
  IF fields = <<>> THEN {<<>>}
  ELSE {<<a>> \o rest :
          a \in ArraysOf(Head(fields).type, n, maxlen, base),
          rest \in ChildrenOf(Tail(fields), n, maxlen, base + 10)}

ColumnBase(i) == 100 * i

\* The choices for columns i.. of a batch of n rows: every array for a
\* column the configuration reads, one array for the others.
RECURSIVE ColumnsFrom(_, _, _, _, _)
ColumnsFrom(schema, i, read, n, maxlen) ==
  IF i > Len(schema) THEN {<<>>}
  ELSE {<<a>> \o rest :
          a \in (IF schema[i].name \in read
                 THEN ArraysOf(schema[i].type, n, maxlen, ColumnBase(i))
                 ELSE {CanonArray(schema[i].type, n, ColumnBase(i))}),
          rest \in ColumnsFrom(schema, i + 1, read, n, maxlen)}

RecordBatch(schema, n, columns) ==
  [schema |-> schema, num_rows |-> n, columns |-> columns]

\* record_batch.slice(1) of a batch with one more leading row: every
\* column starts at offset 1 of its buffers.
Sliced(b) ==
  [b EXCEPT !.columns = [i \in 1..Len(b.columns) |->
                           [b.columns[i] EXCEPT !.offset = 1]]]

OtherSchema(schema) == [schema EXCEPT ![1].name = "other"]

\* A batch of another schema.
Mismatched(b) == [b EXCEPT !.schema = OtherSchema(b.schema)]

\* The columns of the batches of n rows that conform to the schema of cfg.
Conforming(cfg, n, maxlen) ==
  ColumnsFrom(cfg.arrow_schema, 1, ColumnsReadBy(cfg), n, maxlen)

CanonBatch(schema, n) ==
  RecordBatch(schema, n,
              [i \in 1..Len(schema) |-> CanonArray(schema[i].type, n, ColumnBase(i))])

\* A batch as it may be handed over: itself and, for the one-row batch of
\* one-element lists, also its sliced and its other-schema variants.
Handed(b) ==
  IF b = CanonBatch(b.schema, 1) THEN {b, Sliced(b), Mismatched(b)} ELSE {b}

(***************************************************************************)
(* TensorAdapter.ToBatchTensors, one step per handler.  A call's frame is  *)
(* [pc |-> "idle"], the loop at index i, or the finished call with its     *)
(* outcome: [ok |-> TRUE, value |-> dict] or [ok |-> FALSE, error |-> e].  *)
(* The argument produce_eager_tensors is "None", "True" or "False".        *)
(***************************************************************************)
Callers == {1, 2}

EmptyDict == <<>>

DictSet(d, k, v) == [x \in DOMAIN d \cup {k} |-> IF x = k THEN v ELSE d[x]]

IdleFrame == [pc |-> "idle"]

RaisedFrame(record_batch, produce_eager_tensors, invoked, e) ==
  [pc |-> "raised", record_batch |-> record_batch,
   produce_eager_tensors |-> produce_eager_tensors, invoked |-> invoked,
   outcome |-> [ok |-> FALSE, error |-> e]]

\* Lines 142-151: the checks before the loop.
EnterFrame(a, executing_eagerly, record_batch, produce_eager_tensors) ==
  IF produce_eager_tensors = "True" /\ ~executing_eagerly
  THEN RaisedFrame(record_batch, produce_eager_tensors, 0,
                   [exc |-> "RuntimeError",
                    msg |-> "Eager Tensors were requested but eager mode was not enabled."])
  ELSE IF record_batch.schema # a._arrow_schema
  THEN RaisedFrame(record_batch, produce_eager_tensors, 0,
                   [exc |-> "ValueError", msg |-> "Expected same schema."])
  ELSE [pc |-> "loop", record_batch |-> record_batch,
        produce_eager_tensors |-> produce_eager_tensors,
        eager |-> IF produce_eager_tensors = "None" THEN executing_eagerly
                  ELSE produce_eager_tensors = "True",
        i |-> 1, invoked |-> 0]

\* The handler's exception let through as it is.
NotWrapped(tensor_name, e) == e

\* The except clause of the loop body (lines 156-158).
Wrapped(tensor_name, e) ==
  [exc |-> "ValueError", msg |-> "Error raised when handling tensor",
   tensor |-> tensor_name, cause |-> e]

\* One dict shared by every call, as a `result` kept on the adapter would be.
ResultSlotShared(c) == 1

\* `result = {}` is a local of the call: each call has a dict of its own.
ResultSlot(c) == c

\* An adapter whose type spec for the tensor is taken from the value produced.
AdapterRecomputed(a, tensor_name, value) ==
  [a EXCEPT !._type_specs = DictSet(a._type_specs, tensor_name,
                                    [spec |-> value.cls])]

\* GetTensor reads the handler's fields and the batch; it assigns to no
\* attribute of the handler or of the adapter.
AdapterAfterGetTensor(a, tensor_name, value) == a

\* A call begins: the checks of lines 142-150, then `result = {}`.
Entered(c, frame) ==
  /\ calls' = [calls EXCEPT ![c] = frame]
  /\ results' = IF frame.pc = "loop"
                THEN [results EXCEPT ![ResultSlot(c)] = EmptyDict]
                ELSE results

Enter(c, maxrows, maxlen) ==
  /\ adapter.state = "constructed"
  /\ calls[c].pc = "idle"
  /\ \E n \in 0..maxrows, produce_eager_tensors \in {"None", "True", "False"} :
       \E columns \in Conforming(config, n, maxlen) :
         \E record_batch \in Handed(RecordBatch(config.arrow_schema, n, columns)) :
           Entered(c, EnterFrame(adapter, tf_executing_eagerly, record_batch,
                                 produce_eager_tensors))
  /\ UNCHANGED <<config, tf_executing_eagerly, adapter, traversal>>

\* One iteration of the loop of lines 152-158 with g the outcome of
\* handler.GetTensor: the value is stored under the tensor name, or the
\* exception is wrapped and leaves the call, and the call's dict with it.
Stepped(c, frame, item, g) ==
  IF g.err # NoError
  THEN /\ calls' = [calls EXCEPT ![c] =
                      RaisedFrame(frame.record_batch, frame.produce_eager_tensors,
                                  frame.invoked + 1, Wrapped(item.name, g.err))]
       /\ results' = [results EXCEPT ![ResultSlot(c)] = EmptyDict]
       /\ adapter' = adapter
  ELSE /\ calls' = [calls EXCEPT ![c] =
                      [frame EXCEPT !.i = frame.i + 1,
                                    !.invoked = frame.invoked + 1]]
       /\ results' = [results EXCEPT ![ResultSlot(c)] =
                        DictSet(results[ResultSlot(c)], item.name, g.value)]
       /\ adapter' = AdapterAfterGetTensor(adapter, item.name, g.value)

HandlerStep(c) ==
  /\ adapter.state = "constructed"
  /\ calls[c].pc = "loop"
  /\ calls[c].i <= Len(adapter._type_handlers)
  /\ Stepped(c, calls[c], adapter._type_handlers[calls[c].i],
             GetTensor(adapter._type_handlers[calls[c].i].handler,
                       calls[c].record_batch, calls[c].eager))
  /\ UNCHANGED <<config, tf_executing_eagerly, traversal>>

\* `return result` (line 160).
Return(c) ==
  /\ adapter.state = "constructed"
  /\ calls[c].pc = "loop"
  /\ calls[c].i > Len(adapter._type_handlers)
  /\ calls' = [calls EXCEPT ![c] =
                 [pc |-> "done", record_batch |-> calls[c].record_batch,
                  produce_eager_tensors |-> calls[c].produce_eager_tensors,
                  invoked |-> calls[c].invoked,
                  outcome |-> [ok |-> TRUE, value |-> results[ResultSlot(c)]]]]
  /\ results' = [results EXCEPT ![ResultSlot(c)] = EmptyDict]
  /\ UNCHANGED <<config, tf_executing_eagerly, adapter, traversal>>

\* The caller is done with the outcome and may call again.
Discard(c) ==
  /\ calls[c].pc \in {"done", "raised"}
  /\ calls' = [calls EXCEPT ![c] = IdleFrame]
  /\ UNCHANGED <<config, tf_executing_eagerly, adapter, results, traversal>>

\* TensorAdapter(config)
Construct ==
  /\ adapter.state = "none"
  /\ adapter' = TensorAdapterInit(config)
  /\ UNCHANGED <<config, tf_executing_eagerly, calls, results, traversal>>

(***************************************************************************)
(* ToBatchTensors run from entry to exit without interruption: the outcome *)
(* of one call made alone.                                                 *)
(***************************************************************************)
RECURSIVE RunLoop(_, _, _, _, _)
RunLoop(type_handlers, i, record_batch, eager, result) ==
  IF i > Len(type_handlers) THEN [ok |-> TRUE, value |-> result]
  ELSE LET g == GetTensor(type_handlers[i].handler, record_batch, eager)
       IN IF g.err # NoError
          THEN [ok |-> FALSE, error |-> Wrapped(type_handlers[i].name, g.err)]
          ELSE RunLoop(type_handlers, i + 1, record_batch, eager,
                       DictSet(result, type_handlers[i].name, g.value))

ToBatchTensors(a, executing_eagerly, record_batch, produce_eager_tensors) ==
  LET frame == EnterFrame(a, executing_eagerly, record_batch, produce_eager_tensors)
  IN IF frame.pc = "raised" THEN frame.outcome
     ELSE RunLoop(a._type_handlers, 1, record_batch, frame.eager, EmptyDict)

(***************************************************************************)
(* The path traversal called by itself: _EnumerateTypesAlongPath run to    *)
(* its end, and _GetNestDepthAndValueType.                                 *)
(***************************************************************************)
NoTraversal == [pc |-> "none"]

Called(arrow_schema, column_path) ==
  [pc |-> "called", arrow_schema |-> arrow_schema, column_path |-> column_path]

\* list(_EnumerateTypesAlongPath(arrow_schema, column_path))
Enumerate ==
  /\ traversal.pc = "called"
  /\ traversal' = [pc |-> "enumerated",
                   arrow_schema |-> traversal.arrow_schema,
                   column_path |-> traversal.column_path,
                   outcome |-> EnumerateTypesAlongPath(traversal.arrow_schema,
                                                       traversal.column_path)]
  /\ UNCHANGED <<config, tf_executing_eagerly, adapter, calls, results>>

\* _GetNestDepthAndValueType(arrow_schema, column_path)
NestDepth ==
  /\ traversal.pc = "called"
  /\ traversal' = [pc |-> "measured",
                   arrow_schema |-> traversal.arrow_schema,
                   column_path |-> traversal.column_path,
                   outcome |-> GetNestDepthAndValueType(traversal.arrow_schema,
                                                        traversal.column_path)]
  /\ UNCHANGED <<config, tf_executing_eagerly, adapter, calls, results>>

(***************************************************************************)
(* Specifications.                                                         *)
(***************************************************************************)
InitWith(configs) ==
  /\ config \in configs
  /\ tf_executing_eagerly \in BOOLEAN
  /\ adapter = [state |-> "none"]
  /\ calls = [c \in Callers |-> IdleFrame]
  /\ results = [c \in Callers |-> EmptyDict]
  /\ traversal = NoTraversal

NextWith(callers, maxrows, maxlen) ==
  \/ Construct
  \/ \E c \in callers :
       \/ Enter(c, maxrows, maxlen)
       \/ HandlerStep(c)
       \/ Return(c)
       \/ Discard(c)

\* Every kind of tensor, one caller.
Init == InitWith(AllConfigs)
Next == NextWith({1}, MidRows, MidLen)
Spec == Init /\ [][Next]_vars

\* Dense tensors over the larger batches.
InitDense == InitWith(DenseConfigs)
NextDense == NextWith({1}, MaxRows, MaxRowLen)
SpecDense == InitDense /\ [][NextDense]_vars

\* The type specs a configuration derives, when its handlers can be built.
DerivedOf(b) == IF b.err # NoError THEN EmptyDict ELSE TypeSpecsOf(b.handlers)

DerivedTypeSpecs(cfg) ==
  DerivedOf(BuildTypeHandlers(cfg.tensor_representations, cfg.arrow_schema))

OtherSpec == [spec |-> "TensorSpec", shape |-> <<None, 7>>, dtype |-> "int32"]

\* original_type_specs as a caller may supply it for derived type specs d:
\* omitted, equal, a superset, lacking a name, or unequal at a name.
OriginalsFor(d) ==
  {NoOriginal, Original(d), Original(DictSet(d, "other", OtherSpec))}
  \cup {Original([m \in DOMAIN d \ {n} |-> d[m]]) : n \in DOMAIN d}
  \cup {Original(DictSet(d, n, OtherSpec)) : n \in DOMAIN d}
  \cup {Original(DictSet(d, n, [d[n] EXCEPT !.dtype = "bool"])) : n \in DOMAIN d}

BuildConfigs ==
  UNION {{Config(cfg.arrow_schema, cfg.tensor_representations, o) :
            o \in OriginalsFor(DerivedTypeSpecs(cfg))} : cfg \in AllConfigs}

\* Construction from every configuration, with and without original_type_specs.
InitBuild == InitWith(BuildConfigs)
NextBuild == NextWith({1}, MinRows, MinLen)
SpecBuild == InitBuild /\ [][NextBuild]_vars

ConcPairReps ==
  {DenseRep("f", <<1>>, NoDefault),
   DenseRep("f", <<1>>, DefaultValue("int_value", 0)),
   VarLenSparseRep("f")}

ConcConfigs ==
  {cfg \in {Config(SchemaD, <<Item("q", r1), Item("p", r2)>>, NoOriginal) :
               r1 \in ConcPairReps, r2 \in ConcPairReps} :
     cfg.tensor_representations[1].rep # cfg.tensor_representations[2].rep}
  \cup SingleConfigs(SchemaS, {SparseRep(<<>>, "v", <<>>)})
  \cup SingleConfigs(SchemaR, {RaggedRep(<<"t", "a">>, "INT32")})

\* Two callers at once.
InitConc == InitWith(ConcConfigs)
NextConc == NextWith(Callers, MinRows, MinLen)
SpecConc == InitConc /\ [][NextConc]_vars

\* Dense tensors with a default value over every kind of leaf.
InitDefault == InitWith(SingleConfigs(SchemaF, DefaultReps))
NextDefault == NextWith({1}, MinRows, MinLen)
SpecDefault == InitDefault /\ [][NextDefault]_vars

\* The path traversal over every path of up to MaxSteps steps.
InitPath ==
  /\ \E arrow_schema \in {SchemaR, SchemaP}, column_path \in PathsUpTo(MaxSteps) :
       /\ config = Config(arrow_schema, <<>>, NoOriginal)
       /\ traversal = Called(arrow_schema, column_path)
  /\ tf_executing_eagerly = FALSE
  /\ adapter = [state |-> "none"]
  /\ calls = [c \in Callers |-> IdleFrame]
  /\ results = [c \in Callers |-> EmptyDict]
NextPath == Enumerate \/ NestDepth
SpecPath == InitPath /\ [][NextPath]_vars

(***************************************************************************)
(* Claims.                                                                 *)
(***************************************************************************)
\* A candidate accepts when its CanHandle returns True.
Accepts(cls, arrow_schema, rep) ==
  LET c == CanHandle(cls, arrow_schema, rep) IN c.err = "" /\ c.ok

\* The first class of a candidate list that accepts, "" when none does.
RECURSIVE FirstAccepting(_, _, _)
FirstAccepting(potential_handlers, arrow_schema, rep) ==
  IF potential_handlers = <<>> THEN ""
  ELSE IF Accepts(Head(potential_handlers), arrow_schema, rep)
  THEN Head(potential_handlers)
  ELSE FirstAccepting(Tail(potential_handlers), arrow_schema, rep)

ExpectedClass(cfg, k) ==
  FirstAccepting(TYPE_HANDLER_MAP(cfg.tensor_representations[k].rep.kind),
                 cfg.arrow_schema, cfg.tensor_representations[k].rep)

\* The items of the configuration that no candidate accepts.
Unhandled(cfg) ==
  {k \in 1..Len(cfg.tensor_representations) : ExpectedClass(cfg, k) = ""}

FirstOf(S) == CHOOSE k \in S : \A j \in S : k <= j

NamesOffender(error, item) ==
  /\ error.exc = "ValueError"
  /\ "tensor" \in DOMAIN error /\ error.tensor = item.name
  /\ "rep" \in DOMAIN error /\ error.rep = item.rep

\* C1: the build picks, for each representation, the first candidate of its
\* kind (in declared order) whose CanHandle accepts; when the kind is unknown
\* or no candidate accepts -- a missing column included -- the build fails
\* with an error naming the offending tensor and representation, and no
\* handler list comes back.
C1_BuildSelectsFirstOrFailsNaming ==
  adapter.state # "none" =>
    IF Unhandled(config) = {}
    THEN adapter.state = "constructed" =>
           /\ Len(adapter._type_handlers) = Len(config.tensor_representations)
           /\ \A k \in 1..Len(config.tensor_representations) :
                /\ adapter._type_handlers[k].name =
                     config.tensor_representations[k].name
                /\ adapter._type_handlers[k].handler.cls = ExpectedClass(config, k)
    ELSE /\ adapter.state = "raised"
         /\ NamesOffender(adapter.error,
                          config.tensor_representations[FirstOf(Unhandled(config))])

\* The handlers of the configuration can be built.
Buildable(cfg) ==
  BuildTypeHandlers(cfg.tensor_representations, cfg.arrow_schema).err = NoError

\* The supplied map has, for every derived name, an equal entry.
CoversDerived(supplied, derived) ==
  \A n \in DOMAIN derived : n \in DOMAIN supplied /\ supplied[n] = derived[n]

\* C2: with original_type_specs supplied, construction succeeds exactly when
\* the supplied map holds, for every tensor name with a derived type spec,
\* an entry equal to it (entries for other names do not matter) and fails
\* otherwise; with original_type_specs omitted, OriginalTypeSpecs() equals
\* TypeSpecs().
C2_OriginalTypeSpecsMustCoverDerived ==
  (adapter.state # "none" /\ Buildable(config)) =>
    IF config.original_type_specs.none
    THEN /\ adapter.state = "constructed"
         /\ OriginalTypeSpecs(adapter) = TypeSpecs(adapter)
         /\ TypeSpecs(adapter) = DerivedTypeSpecs(config)
    ELSE /\ adapter.state = "constructed" <=>
              CoversDerived(config.original_type_specs.specs, DerivedTypeSpecs(config))
         /\ adapter.state = "constructed" =>
              /\ OriginalTypeSpecs(adapter) = config.original_type_specs.specs
              /\ TypeSpecs(adapter) = DerivedTypeSpecs(config)
         /\ adapter.state = "raised" =>
              /\ adapter.error.exc = "ValueError"
              /\ adapter.error.msg = "original_type_specs must be a superset"

\* Construction failed on a supplied entry that is present but unequal.
C2_WitnessUnequalEntryRejected ==
  /\ adapter.state = "raised"
  /\ Buildable(config)
  /\ ~config.original_type_specs.none
  /\ DOMAIN DerivedTypeSpecs(config) \subseteq DOMAIN config.original_type_specs.specs
  /\ adapter.error.tensor \in DOMAIN DerivedTypeSpecs(config)

\* The calls that have ended, by return or by exception.
Finished(c) == calls[c].pc \in {"done", "raised"}

\* The flag as the loop sees it (lines 142-147).
EagerOf(c) ==
  IF calls[c].produce_eager_tensors = "None" THEN tf_executing_eagerly
  ELSE calls[c].produce_eager_tensors = "True"

\* A static shape agrees with an actual one: same rank, and equal
\* wherever the static dimension is known.
DimsMatch(shape, static) ==
  /\ Len(shape) = Len(static)
  /\ \A k \in 1..Len(static) : static[k] = None \/ static[k] = shape[k]

\* The TF dtype of an ndarray, a tensor or a list of integers.
DtypeOf(v) ==
  CASE v.cls = "ndarray" -> TfDtypeOfNp(v.dtype)
    [] v.cls = "list" -> "int64"
    [] OTHER -> v.dtype

DenseMatches(v, ts, rows) ==
  /\ ts.spec = "TensorSpec"
  /\ v.cls \in {"ndarray", "Tensor"}
  /\ v.shape = <<rows>> \o Tail(ts.shape)
  /\ DimsMatch(v.shape, ts.shape)
  /\ Len(v.data) = Prod(v.shape)
  /\ DtypeOf(v) = ts.dtype

SparseMatches(v, ts, rows) ==
  /\ ts.spec = "SparseTensorSpec"
  /\ v.cls \in {"SparseTensorValue", "SparseTensor"}
  /\ v.indices.shape = <<Len(v.values.data), Len(ts.shape)>>
  /\ Len(v.indices.data) = Len(v.values.data) * Len(ts.shape)
  /\ DimsMatch(v.dense_shape.data, ts.shape)
  /\ v.dense_shape.data[1] = rows
  /\ DtypeOf(v.values) = ts.dtype

IsRagged(v) == v.cls \in {"RaggedTensorValue", "RaggedTensor"}

\* The row-partition levels of a ragged value, outermost first.
RECURSIVE RowSplitsOf(_)
RowSplitsOf(v) == IF IsRagged(v) THEN <<v.row_splits>> \o RowSplitsOf(v.values) ELSE <<>>

RECURSIVE FlatValuesOf(_)
FlatValuesOf(v) == IF IsRagged(v) THEN FlatValuesOf(v.values) ELSE v

RaggedMatches(v, ts, rows) ==
  /\ ts.spec = "RaggedTensorSpec"
  /\ Len(RowSplitsOf(v)) = ts.ragged_rank
  /\ Len(ts.shape) = ts.ragged_rank + 1
  /\ ts.ragged_rank >= 1 => RowSplitsOf(v)[1].shape = <<rows + 1>>
  /\ \A k \in 1..Len(RowSplitsOf(v)) : DtypeOf(RowSplitsOf(v)[k]) = ts.row_splits_dtype
  /\ DtypeOf(FlatValuesOf(v)) = ts.dtype

MatchesTypeSpec(cls, v, ts, rows) ==
  CASE cls \in {"_DenseTensorHandler", "_DefaultFillingDenseTensorHandler"} ->
         DenseMatches(v, ts, rows)
    [] cls \in {"_VarLenSparseTensorHandler", "_SparseTensorHandler"} ->
         SparseMatches(v, ts, rows)
    [] cls = "_RaggedTensorHandler" -> RaggedMatches(v, ts, rows)

\* C3: every value a successful conversion returns matches the type spec of
\* its handler: a dense value has shape [rows, declared dims]; a sparse
\* value has indices of width len(dense_shape) + 1 and dense_shape
\* [rows, declared dims]; a varlen sparse value has rank 2; a ragged value
\* has as many row-partition levels as the ragged rank of its type spec; the
\* leading dimension is the row count of the batch.
C3_ValueMatchesTypeSpec ==
  \A c \in Callers : calls[c].pc = "done" =>
    \A k \in 1..Len(adapter._type_handlers) :
      MatchesTypeSpec(adapter._type_handlers[k].handler.cls,
                      calls[c].outcome.value[adapter._type_handlers[k].name],
                      TypeSpecs(adapter)[adapter._type_handlers[k].name],
                      calls[c].record_batch.num_rows)

\* A sparse tensor with two index columns was produced from a batch of two
\* rows holding values.
C3_WitnessSparseValueProduced ==
  /\ calls[1].pc = "done"
  /\ adapter._type_handlers[1].handler.cls = "_SparseTensorHandler"
  /\ TypeSpecs(adapter)["p"].shape = <<None, 10, 5>>
  /\ calls[1].record_batch.num_rows = 2
  /\ Len(calls[1].outcome.value["p"].values.data) >= 2

\* C4: a call returns a dict with a value for every configured tensor
\* name, or raises and returns no dict: a batch of another schema raises
\* before any handler is invoked, and the first handler to fail, in
\* configured order, ends the call with an error naming its tensor; the
\* values produced before it are dropped.
C4_AllTensorsOrError ==
  \A c \in Callers : Finished(c) =>
    /\ calls[c].pc = "done" =>
         /\ calls[c].outcome.ok
         /\ DOMAIN calls[c].outcome.value =
              {adapter._type_handlers[k].name : k \in 1..Len(adapter._type_handlers)}
         /\ calls[c].invoked = Len(adapter._type_handlers)
         /\ calls[c].record_batch.schema = adapter._arrow_schema
    /\ calls[c].pc = "raised" =>
         /\ ~calls[c].outcome.ok
         /\ "value" \notin DOMAIN calls[c].outcome
         /\ results[ResultSlot(c)] = EmptyDict
         /\ calls[c].record_batch.schema # adapter._arrow_schema =>
              calls[c].invoked = 0
         /\ calls[c].invoked > 0 =>
              /\ calls[c].outcome.error.exc = "ValueError"
              /\ "tensor" \in DOMAIN calls[c].outcome.error
              /\ calls[c].outcome.error.tensor =
                   adapter._type_handlers[calls[c].invoked].name
              /\ \A k \in 1..calls[c].invoked :
                   (GetTensor(adapter._type_handlers[k].handler,
                              calls[c].record_batch, EagerOf(c)).err # NoError)
                   <=> k = calls[c].invoked

\* The second handler failed after the first had produced its value.
C4_WitnessSecondHandlerFailed ==
  /\ calls[1].pc = "raised"
  /\ calls[1].invoked = 2
  /\ calls[1].outcome.error.tensor = "p"

\* C5: once the adapter is constructed, no step of any ToBatchTensors call,
\* successful or failing, changes it: its schema, handler list, handler
\* fields and both type-spec maps stay what construction made them, so
\* TypeSpecs() and OriginalTypeSpecs() return the same maps after any
\* sequence of calls.
C5_ConversionLeavesAdapterUnchanged ==
  [][adapter.state = "constructed" =>
       /\ adapter' = adapter
       /\ TypeSpecs(adapter') = TypeSpecs(TensorAdapterInit(config))
       /\ OriginalTypeSpecs(adapter') = OriginalTypeSpecs(TensorAdapterInit(config))]_vars

\* A call over both handlers has returned and the adapter is still there.
C5_WitnessCallReturned ==
  /\ adapter.state = "constructed"
  /\ calls[1].pc = "done"
  /\ calls[1].invoked = 2
  /\ calls[1].record_batch.num_rows > 0

\* C6: under every interleaving of the steps of concurrent calls on one
\* adapter, the outcome of each call -- the dict returned or the error
\* raised -- is the outcome of that call run alone.
C6_ConcurrentCallsDoNotInterfere ==
  \A c \in Callers : Finished(c) =>
    calls[c].outcome = ToBatchTensors(adapter, tf_executing_eagerly,
                                      calls[c].record_batch,
                                      calls[c].produce_eager_tensors)

\* One call returned its two tensors while another call, on a different
\* batch, was between its two handlers.
C6_WitnessOverlappingCalls ==
  /\ calls[1].pc = "done"
  /\ calls[1].invoked = 2
  /\ calls[2].pc = "loop"
  /\ calls[2].i = 2
  /\ calls[2].record_batch # calls[1].record_batch

\* A value without its representation: what was computed, whatever holds it.
RECURSIVE Plain(_)
Plain(v) ==
  CASE v.cls \in {"ndarray", "Tensor"} ->
         [shape |-> v.shape, dtype |-> DtypeOf(v), data |-> v.data]
    [] v.cls = "list" ->
         [shape |-> <<Len(v.data)>>, dtype |-> "int64", data |-> v.data]
    [] v.cls \in {"SparseTensorValue", "SparseTensor"} ->
         [indices |-> Plain(v.indices), dense_shape |-> Plain(v.dense_shape),
          values |-> Plain(v.values)]
    [] IsRagged(v) ->
         [values |-> Plain(v.values), row_splits |-> Plain(v.row_splits)]

PlainOutcome(o) ==
  IF o.ok THEN [ok |-> TRUE, value |-> [n \in DOMAIN o.value |-> Plain(o.value[n])]]
  ELSE o

OtherFlag(f) == IF f = "True" THEN "False" ELSE "True"

\* C7 as the specification states it: the flag only chooses the
\* representation -- a call ends the same way and computes the same values
\* with the flag true as with it false -- and nothing about the call
\* depends on the process-wide TF mode.
C7_FlagIsOnlyRepresentation ==
  \A c \in Callers : Finished(c) =>
    /\ calls[c].produce_eager_tensors # "None" =>
         PlainOutcome(calls[c].outcome) =
           PlainOutcome(ToBatchTensors(adapter, tf_executing_eagerly,
                                       calls[c].record_batch,
                                       OtherFlag(calls[c].produce_eager_tensors)))
    /\ calls[c].outcome = ToBatchTensors(adapter, ~tf_executing_eagerly,
                                         calls[c].record_batch,
                                         calls[c].produce_eager_tensors)

\* C7 as the code has it: while TF executes eagerly the flag only chooses
\* the representation; while it does not, asking for eager tensors raises
\* RuntimeError before any handler runs; and an omitted flag takes the
\* process-wide TF mode.
C7_FlagIsRepresentationWhenEager ==
  \A c \in Callers : Finished(c) =>
    /\ (calls[c].produce_eager_tensors # "None" /\ tf_executing_eagerly) =>
         PlainOutcome(calls[c].outcome) =
           PlainOutcome(ToBatchTensors(adapter, tf_executing_eagerly,
                                       calls[c].record_batch,
                                       OtherFlag(calls[c].produce_eager_tensors)))
    /\ (calls[c].produce_eager_tensors = "True" /\ ~tf_executing_eagerly) =>
         /\ calls[c].pc = "raised"
         /\ calls[c].outcome.error.exc = "RuntimeError"
         /\ calls[c].invoked = 0
    /\ calls[c].produce_eager_tensors = "None" =>
         calls[c].outcome =
           ToBatchTensors(adapter, tf_executing_eagerly, calls[c].record_batch,
                          IF tf_executing_eagerly THEN "True" ELSE "False")

\* Eager tensors were asked for and produced from a batch with values.
C7_WitnessEagerTensorsProduced ==
  /\ tf_executing_eagerly
  /\ calls[1].pc = "done"
  /\ calls[1].produce_eager_tensors = "True"
  /\ calls[1].record_batch.num_rows = 2
  /\ calls[1].invoked = 2

\* The single tensor "p" of the configuration, its handler and its column.
TheRep == config.tensor_representations[1].rep
TheHandler == adapter._type_handlers[1].handler
ColumnNamed(record_batch, name) ==
  Column(record_batch, get_field_index(record_batch.schema, name))

\* The elements of row r of a list array (r from 1), empty for a null row.
RowOf(list_array, r) ==
  SubSeq(list_array.values.vals,
         Offsets(list_array)[r] + 1, Offsets(list_array)[r] + list_array.lens[r])

\* The elements of all rows, row after row.
RowsFlat(list_array) ==
  Concat([r \in 1..ArrayLen(list_array) |-> RowOf(list_array, r)])

\* The handler of the only tensor was invoked by call c, which has ended.
InvokedOn(c, cls) ==
  /\ Finished(c)
  /\ Len(adapter._type_handlers) = 1
  /\ TheHandler.cls = cls
  /\ calls[c].invoked = 1

\* What a dense conversion of flat values must end with, for rows * P
\* expected elements.
DenseOutcomeIs(c, flat, rows, dims) ==
  IF Len(flat) = rows * Prod(dims)
  THEN /\ calls[c].pc = "done"
       /\ calls[c].outcome.value["p"].data = flat
       /\ calls[c].outcome.value["p"].shape = <<rows>> \o dims
  ELSE /\ calls[c].pc = "raised"
       /\ calls[c].outcome.error.cause.msg = "size mismatch"
       /\ calls[c].outcome.error.cause.expected = rows * Prod(dims)
       /\ calls[c].outcome.error.cause.got = Len(flat)

\* C8: plain dense conversion succeeds exactly when the number of flattened
\* values of the column is rows * product(declared dims); it then returns
\* them, in flattened order, in shape [rows, declared dims]; otherwise it
\* raises a size mismatch reporting the expected and the actual counts.
C8_DenseReshapesOrReportsMismatch ==
  \A c \in Callers : InvokedOn(c, "_DenseTensorHandler") =>
    DenseOutcomeIs(c, RowsFlat(ColumnNamed(calls[c].record_batch, TheRep.column_name)),
                   calls[c].record_batch.num_rows, TheRep.shape)

\* Rows of 2, 3 and 2 values against shape [2]: expected 6, got 7.
C8_WitnessSizeMismatch ==
  /\ InvokedOn(1, "_DenseTensorHandler")
  /\ TheRep.shape = <<2>>
  /\ ColumnNamed(calls[1].record_batch, TheRep.column_name).lens = <<2, 3, 2>>
  /\ calls[1].pc = "raised"
  /\ calls[1].outcome.error.cause.expected = 6
  /\ calls[1].outcome.error.cause.got = 7

\* The rows of a list array with every null row replaced by `count` copies
\* of `value`, row after row.
RowsFilled(list_array, count, value) ==
  Concat([r \in 1..ArrayLen(list_array) |->
            IF list_array.valid[r] THEN RowOf(list_array, r)
            ELSE [j \in 1..count |-> value]])

\* C9: default-filling dense conversion replaces every null row by the
\* default value repeated product(declared dims) times, leaves the other
\* rows as they are, and then checks the size and reshapes; so a batch whose
\* non-null rows all have product(declared dims) values converts, each null
\* row showing as a row of defaults at its place.
C9_NullRowsBecomeDefaults ==
  \A c \in Callers : InvokedOn(c, "_DefaultFillingDenseTensorHandler") =>
    /\ DenseOutcomeIs(
         c, RowsFilled(ColumnNamed(calls[c].record_batch, TheRep.column_name),
                       Prod(TheRep.shape), TheRep.default_value.value),
         calls[c].record_batch.num_rows, TheRep.shape)
    /\ (\A r \in 1..calls[c].record_batch.num_rows :
          ColumnNamed(calls[c].record_batch, TheRep.column_name).valid[r] =>
            ColumnNamed(calls[c].record_batch, TheRep.column_name).lens[r] =
              Prod(TheRep.shape))
       => /\ calls[c].pc = "done"
          /\ \A r \in 1..calls[c].record_batch.num_rows :
               SubSeq(calls[c].outcome.value["p"].data,
                      (r - 1) * Prod(TheRep.shape) + 1, r * Prod(TheRep.shape)) =
                 IF ColumnNamed(calls[c].record_batch, TheRep.column_name).valid[r]
                 THEN RowOf(ColumnNamed(calls[c].record_batch, TheRep.column_name), r)
                 ELSE [j \in 1..Prod(TheRep.shape) |-> TheRep.default_value.value]

\* A batch with a null row between two full rows was converted.
C9_WitnessNullRowFilled ==
  /\ InvokedOn(1, "_DefaultFillingDenseTensorHandler")
  /\ calls[1].pc = "done"
  /\ ColumnNamed(calls[1].record_batch, TheRep.column_name).valid = <<TRUE, FALSE, TRUE>>
  /\ ColumnNamed(calls[1].record_batch, TheRep.column_name).lens = <<2, 0, 2>>

\* The 0-based row that owns flattened element k (k from 1) of a list array.
OwnerRow(list_array, k) ==
  (CHOOSE r \in 1..ArrayLen(list_array) :
     Offsets(list_array)[r] < k /\ k <= Offsets(list_array)[r + 1]) - 1

RowLengthsDisagree(record_batch, rep) ==
  \E j \in 1..Len(rep.index_column_names) :
    ColumnNamed(record_batch, rep.index_column_names[j]).lens #
      ColumnNamed(record_batch, rep.value_column_name).lens

\* C11: a sparse conversion of a batch in which some index column's row
\* lengths disagree with the value column's row lengths raises the stacking
\* error, which reports the observed lengths; no COO value is returned for
\* such a batch.
C11_RowLengthDisagreementRaises ==
  \A c \in Callers :
    (InvokedOn(c, "_SparseTensorHandler")
     /\ RowLengthsDisagree(calls[c].record_batch, TheRep)) =>
      /\ calls[c].pc = "raised"
      /\ calls[c].outcome.error.cause.msg = "Error constructing the COO"
      /\ calls[c].outcome.error.cause.number_of_values =
           Len(RowsFlat(ColumnNamed(calls[c].record_batch, TheRep.value_column_name)))
      /\ Len(calls[c].outcome.error.cause.sizes) = Len(TheRep.index_column_names) + 1

\* The row partition of a list array: entry k is the number of elements in
\* the rows before row k.
PartitionOf(list_array) ==
  [k \in 1..(Len(list_array.lens) + 1) |-> Sum(SubSeq(list_array.lens, 1, k - 1))]

\* The partitions of the list levels met from array a along the path,
\* first level first.
RECURSIVE LevelsAlong(_, _)
LevelsAlong(a, path) ==
  IF is_struct(a.type) THEN LevelsAlong(StructField(a, Head(path)), Tail(path))
  ELSE IF IsListLike(a.type) THEN <<PartitionOf(a)>> \o LevelsAlong(a.values, path)
  ELSE <<>>

\* The leaf values reached from array a along the path.
RECURSIVE LeafAlong(_, _)
LeafAlong(a, path) ==
  IF is_struct(a.type) THEN LeafAlong(StructField(a, Head(path)), Tail(path))
  ELSE IF IsListLike(a.type) THEN LeafAlong(a.values, path)
  ELSE a.vals

\* C12: a ragged conversion of an unsliced batch returns the leaf values
\* reached along the feature path, wrapped by one row partition per list
\* level met on the way, the partition of the first list level outermost;
\* the number of levels is the ragged rank fixed at construction and every
\* partition has the integer width of the type spec, 32-bit only if the
\* representation declares INT32.
C12_RaggedWrapsListLevelsOutermostFirst ==
  \A c \in Callers :
    (InvokedOn(c, "_RaggedTensorHandler")
     /\ ColumnNamed(calls[c].record_batch, Head(TheRep.feature_path)).offset = 0) =>
      /\ calls[c].pc = "done"
      /\ LET v == calls[c].outcome.value["p"]
             column == ColumnNamed(calls[c].record_batch, Head(TheRep.feature_path))
             levels == LevelsAlong(column, Tail(TheRep.feature_path))
         IN /\ Len(RowSplitsOf(v)) = Len(levels)
            /\ \A k \in 1..Len(levels) :
                 /\ RowSplitsOf(v)[k].data = levels[k]
                 /\ DtypeOf(RowSplitsOf(v)[k]) =
                      type_spec(TheHandler).row_splits_dtype
                 /\ DtypeOf(RowSplitsOf(v)[k]) = "int32" <=>
                      TheRep.row_partition_dtype = "INT32"
                 /\ DtypeOf(RowSplitsOf(v)[k]) \in {"int32", "int64"}
            /\ FlatValuesOf(v).data = LeafAlong(column, Tail(TheRep.feature_path))
            /\ Len(levels) = TheHandler._ragged_rank
            /\ Len(levels) = type_spec(TheHandler).ragged_rank

\* A two-level column was converted: two outer rows of two and no inner
\* lists, the inner lists of one element each.
C12_WitnessTwoLevelsConverted ==
  /\ InvokedOn(1, "_RaggedTensorHandler")
  /\ calls[1].pc = "done"
  /\ TheRep.feature_path = <<"r">>
  /\ TheRep.row_partition_dtype = "INT32"
  /\ ColumnNamed(calls[1].record_batch, "r").lens = <<2, 0>>
  /\ ColumnNamed(calls[1].record_batch, "r").values.lens = <<1, 1>>
  /\ RowSplitsOf(calls[1].outcome.value["p"])[1].data = <<0, 2, 2>>
  /\ RowSplitsOf(calls[1].outcome.value["p"])[2].data = <<0, 1, 2>>

\* How a walk from type t ends when the steps of path are still to be
\* taken: a struct takes the next step as the name of a child, a list-like
\* type takes none and passes to its value type, a leaf ends the walk.
RECURSIVE PathEnd(_, _)
PathEnd(t, path) ==
  IF is_struct(t) THEN
    IF path = <<>> THEN "struct"
    ELSE IF ~HasField(t.fields, Head(path)) THEN "no child"
    ELSE PathEnd(FieldType(t.fields, Head(path)), Tail(path))
  ELSE IF IsListLike(t) THEN PathEnd(t.value_type, path)
  ELSE IF path # <<>> THEN "steps left" ELSE "leaf"

\* The same for a path through a schema, whose first step names a column.
SchemaPathEnd(arrow_schema, path) ==
  IF path = <<>> THEN "empty"
  ELSE IF ~HasField(arrow_schema, Head(path)) THEN "no column"
  ELSE PathEnd(FieldType(arrow_schema, Head(path)), Tail(path))

\* The list-like types and the struct types met on the walk, and the type
\* at which it ends.
RECURSIVE ListsFrom(_, _)
ListsFrom(t, path) ==
  IF is_struct(t) THEN
    IF path = <<>> \/ ~HasField(t.fields, Head(path)) THEN 0
    ELSE ListsFrom(FieldType(t.fields, Head(path)), Tail(path))
  ELSE IF IsListLike(t) THEN 1 + ListsFrom(t.value_type, path)
  ELSE 0

RECURSIVE StructsFrom(_, _)
StructsFrom(t, path) ==
  IF is_struct(t) THEN
    IF path = <<>> \/ ~HasField(t.fields, Head(path)) THEN 1
    ELSE 1 + StructsFrom(FieldType(t.fields, Head(path)), Tail(path))
  ELSE IF IsListLike(t) THEN StructsFrom(t.value_type, path)
  ELSE 0

RECURSIVE LastFrom(_, _)
LastFrom(t, path) ==
  IF is_struct(t) THEN
    IF path = <<>> \/ ~HasField(t.fields, Head(path)) THEN t
    ELSE LastFrom(FieldType(t.fields, Head(path)), Tail(path))
  ELSE IF IsListLike(t) THEN LastFrom(t.value_type, path)
  ELSE t

\* The path resolves through the schema to a leaf and passes a list.
RaggedFeasible(arrow_schema, path) ==
  /\ SchemaPathEnd(arrow_schema, path) = "leaf"
  /\ ListsFrom(FieldType(arrow_schema, Head(path)), Tail(path)) >= 1

\* C13: the ragged feasibility predicate returns true exactly when the
\* feature path resolves through the schema to a leaf and passes at least
\* one list-like type; for every other path -- a first or later step that
\* names no field, a path without a list, a path ending on a struct -- it
\* returns false without raising, so the build fails with the
\* configuration error naming the tensor; a constructed ragged handler has
\* ragged rank >= 1.
C13_RaggedCanHandleReturnsNeverRaises ==
  (/\ adapter.state # "none"
   /\ Len(config.tensor_representations) = 1
   /\ TheRep.kind = "ragged_tensor"
   /\ config.original_type_specs.none) =>
    IF RaggedFeasible(config.arrow_schema, TheRep.feature_path)
    THEN /\ adapter.state = "constructed"
         /\ TheHandler.cls = "_RaggedTensorHandler"
         /\ TheHandler._ragged_rank >= 1
    ELSE /\ adapter.state = "raised"
         /\ NamesOffender(adapter.error, config.tensor_representations[1])

\* How the walk over the arguments of the traversal ends, and what it meets.
TraversalEnd == SchemaPathEnd(traversal.arrow_schema, traversal.column_path)
TraversalLists ==
  ListsFrom(FieldType(traversal.arrow_schema, Head(traversal.column_path)),
            Tail(traversal.column_path))
TraversalStructs ==
  StructsFrom(FieldType(traversal.arrow_schema, Head(traversal.column_path)),
              Tail(traversal.column_path))
TraversalLast ==
  LastFrom(FieldType(traversal.arrow_schema, Head(traversal.column_path)),
           Tail(traversal.column_path))

IsLeafType(t) == ~is_struct(t) /\ ~IsListLike(t)

LeastOf(t) == IF t.k = "uint8" THEN 0 ELSE -(2 ^ 7)
GreatestOf(t) == IF t.k = "uint8" THEN 2 ^ 8 - 1 ELSE 2 ^ 7 - 1

\* The declared default is legal for leaf type t.
LegalDefault(t, d) ==
  \/ /\ d.kind \in {"int_value", "uint_value"}
     /\ t.k \in {"int8", "uint8"}
     /\ LeastOf(t) <= d.value /\ d.value <= GreatestOf(t)
  \/ d.kind = "float_value" /\ t.k = "float32"
  \/ d.kind = "bytes_value" /\ t.k \in {"string", "binary"}

\* C15: a dense representation that declares a default over a list column
\* is constructed, as a default-filling handler, exactly when the default
\* is legal for the leaf type: an int or uint default within the limits of
\* an integer leaf, a float default on a floating leaf, a bytes default on
\* a binary or string leaf; any other combination, no kind set included,
\* and any integer outside the limits makes the constructor raise, and no
\* adapter is returned.
C15_DefaultMustBeLegalForLeaf ==
  (/\ adapter.state # "none"
   /\ Len(config.tensor_representations) = 1
   /\ TheRep.kind = "dense_tensor"
   /\ TheRep.default_value.set
   /\ config.arrow_schema = SchemaF) =>
    IF LegalDefault(FieldType(config.arrow_schema, TheRep.column_name).value_type,
                    TheRep.default_value)
    THEN /\ adapter.state = "constructed"
         /\ TheHandler.cls = "_DefaultFillingDenseTensorHandler"
         /\ TheHandler._default_fill.vals =
              [i \in 1..Prod(TheRep.shape) |-> TheRep.default_value.value]
    ELSE /\ adapter.state = "raised"
         /\ adapter.error.exc = "ValueError"

\* The largest uint8 default was accepted for a uint8 column, and a batch
\* converted with it.
C15_WitnessLimitAccepted ==
  /\ adapter.state = "constructed"
  /\ config.arrow_schema = SchemaF
  /\ TheRep.column_name = "u"
  /\ TheRep.default_value = DefaultValue("int_value", 255)
  /\ TheHandler._default_fill.vals = <<255, 255>>
  /\ calls[1].pc = "done"

\* Row r (from 1) of a dense value of per-row size p.
OutputRow(v, r, p) == SubSeq(v.data, (r - 1) * p + 1, r * p)

\* C16: whenever a dense conversion, plain or default-filling, succeeds,
\* every row of the column held exactly (product of the declared dims)
\* values, a null row counting as its default fill and only under the
\* default-filling handler, and output row i consists of the values of
\* input row i; so a batch whose rows have other lengths is not converted
\* even when the total number of values is rows * (product of dims).
C16_DenseSuccessImpliesUniformRows ==
  \A c \in Callers :
    (/\ \/ InvokedOn(c, "_DenseTensorHandler")
        \/ InvokedOn(c, "_DefaultFillingDenseTensorHandler")
     /\ calls[c].pc = "done") =>
      \A r \in 1..calls[c].record_batch.num_rows :
        IF ColumnNamed(calls[c].record_batch, TheRep.column_name).valid[r]
        THEN /\ ColumnNamed(calls[c].record_batch, TheRep.column_name).lens[r] =
                  Prod(TheRep.shape)
             /\ OutputRow(calls[c].outcome.value["p"], r, Prod(TheRep.shape)) =
                  RowOf(ColumnNamed(calls[c].record_batch, TheRep.column_name), r)
        ELSE /\ TheHandler.cls = "_DefaultFillingDenseTensorHandler"
             /\ OutputRow(calls[c].outcome.value["p"], r, Prod(TheRep.shape)) =
                  TheHandler._default_fill.vals
=============================================================================
